---- MODULE Spec2Model ----
(***************************************************************************)
(* A model of the dfsummary package: the DfSummary object                  *)
(* (src/dfsummary/dfsummary.py) and its two helpers                        *)
(* (src/dfsummary/dfsummary_helpers.py).                                   *)
(*                                                                         *)
(* A dataframe is a record [index, columns]: index is the sequence of row  *)
(* labels, columns a sequence of [name, dtype, values].  A cell is <<>>    *)
(* (NaN / None) or <<v>> with v an integer; the strings of an "object"     *)
(* column are written as natural numbers, v for the string "s<v>".         *)
(* Strings that the code transforms (the correlation method) are sequences *)
(* of one-character strings.  A correlation coefficient is exact: its      *)
(* sign and its square as a fraction in lowest terms.                      *)
(*                                                                         *)
(* The state is the object's attributes (df, nrows, heatmap_data,          *)
(* df_summary) together with the method called last (call) and what it     *)
(* returned, raised and printed (ret).  Statistics and rendering are the   *)
(* dataframe and plotting libraries'; they are modelled as far as the      *)
(* code's control flow and its results depend on them.                     *)
(***************************************************************************)
EXTENDS Integers, Sequences, FiniteSets, TLC

VARIABLES df, nrows, heatmap_data, df_summary, call, ret

vars == <<df, nrows, heatmap_data, df_summary, call, ret>>

(***************************************************************************)
(* Bounds of the input space.                                              *)
(***************************************************************************)
\* rows of the small datasets: 0 .. MaxRows
MaxRows == 3
\* numeric columns of the wide datasets: 3 .. MaxWide
MaxWide == 7
\* the long datasets have SwarmCap .. SwarmCap + MaxOver rows, one of them null
MaxOver == 2

(***************************************************************************)
(* Program constants.                                                      *)
(***************************************************************************)
\* DfSummary.ncols, the class-level number of subplot columns
ncols == 3
\* the cap on swarmplot points in return_boxplots
SwarmCap == 2000
\* the quantile levels of return_df_summary, in quarters: 0.25, 0.5, 0.75
Q25 == 1
Q50 == 2
Q75 == 3

(***************************************************************************)
(* Generic helpers.                                                        *)
(***************************************************************************)
NaN == <<>>

IsNull(cell) == cell = NaN

Range(s) == {s[i] : i \in DOMAIN s}

Abs(x) == IF x < 0 THEN -x ELSE x

Sign(x) == IF x > 0 THEN 1 ELSE IF x < 0 THEN -1 ELSE 0

Min2(a, b) == IF a <= b THEN a ELSE b

RECURSIVE Gcd(_, _)
Gcd(a, b) == IF b = 0 THEN a ELSE Gcd(b, a % b)

\* how many elements of the integer sequence s are below, at or up to v
CountLt(s, v) == Len(SelectSeq(s, LAMBDA x : x < v))

CountEq(s, v) == Len(SelectSeq(s, LAMBDA x : x = v))

CountLe(s, v) == Len(SelectSeq(s, LAMBDA x : x <= v))

\* the sum of the function f over its domain
RECURSIVE SumFun(_)
SumFun(f) ==
    IF DOMAIN f = {} THEN 0
    ELSE LET x == CHOOSE y \in DOMAIN f : TRUE
         IN  f[x] + SumFun([y \in DOMAIN f \ {x} |-> f[y]])

\* the sum of the integer sequence s and of its squares, value by value
SumValues(s) == SumFun([v \in Range(s) |-> v * CountEq(s, v)])

SumSquares(s) == SumFun([v \in Range(s) |-> v * v * CountEq(s, v)])

\* the elements of s at the positions pos, in that order
Pick(s, pos) == [k \in 1..Len(pos) |-> s[pos[k]]]

\* a reduced fraction <<num, den>>, den > 0
Frac(n, d) ==
    LET g == Gcd(Abs(n), Abs(d))
        s == IF d < 0 THEN -1 ELSE 1
    IN  <<(s * n) \div g, (s * d) \div g>>

(***************************************************************************)
(* The input space: the objects a caller can hand to DfSummary(...).       *)
(***************************************************************************)
ColumnNames == <<"A", "B", "C", "D", "E", "F", "G", "H", "I">>

NumericKinds == <<"inc", "gap", "const", "nan", "zig">>

Kinds == NumericKinds \o <<"str">>

KindDtype(kind) ==
    CASE kind \in {"inc", "const", "zig"} -> "int64"
      [] kind \in {"gap", "nan"}          -> "float64"
      [] OTHER                            -> "object"

KindCell(kind, i) ==
    CASE kind = "inc"   -> <<i>>
      [] kind = "gap"   -> IF i = 2 THEN NaN ELSE <<(i * i) % 7>>
      [] kind = "const" -> <<5>>
      [] kind = "nan"   -> NaN
      [] kind = "zig"   -> <<(i * i) % 5>>
      [] OTHER          -> IF i = 3 THEN NaN ELSE <<i % 2>>

MakeColumn(k, kind, r) ==
    [name |-> ColumnNames[k], dtype |-> KindDtype(kind),
     values |-> [i \in 1..r |-> KindCell(kind, i)]]

MakeFrame(kinds, r) ==
    [index |-> [i \in 1..r |-> i],
     columns |-> [k \in 1..Len(kinds) |-> MakeColumn(k, kinds[k], r)]]

\* every dataset of no column, one column or two columns of any kinds, and
\* at most MaxRows rows
PairFrames ==
    {MakeFrame(ks, r) :
        ks \in {<<>>} \cup {<<a>> : a \in Range(Kinds)}
                     \cup {<<a, b>> : a \in Range(Kinds), b \in Range(Kinds)},
        r \in 0..MaxRows}

\* datasets of 3 .. MaxWide numeric columns of MaxRows rows, the kinds in
\* rotation
WideFrames ==
    {MakeFrame([k \in 1..n |-> NumericKinds[((k + n) % Len(NumericKinds)) + 1]], MaxRows) :
        n \in 3..MaxWide}

\* one long numeric column with one null, around the swarmplot cap
LongFrames ==
    {MakeFrame(<<"gap">>, r) : r \in SwarmCap..(SwarmCap + MaxOver)}

\* a Series: one column and its index
Serieses ==
    {[kind |-> "Series", index |-> [i \in 1..r |-> i], column |-> MakeColumn(1, k, r)] :
        k \in Range(Kinds), r \in 0..MaxRows}

Inputs ==
    {[kind |-> "DataFrame", frame |-> f] : f \in PairFrames \cup WideFrames \cup LongFrames}
        \cup Serieses

(***************************************************************************)
(* The dataframe operations the code calls.                                *)
(***************************************************************************)
\* Series.to_frame()
to_frame(s) == [index |-> s.index, columns |-> <<s.column>>]

IsNumeric(col) == col.dtype \in {"int64", "float64"}

\* df.select_dtypes(include=np.number)
select_dtypes(frame) ==
    [index |-> frame.index, columns |-> SelectSeq(frame.columns, IsNumeric)]

\* df.shape
shape(frame) == <<Len(frame.index), Len(frame.columns)>>

\* names of the columns, in order
columns(frame) == [k \in 1..Len(frame.columns) |-> frame.columns[k].name]

\* col[col.notnull()]: the non-null values of a column, in order
notnull_values(col) == SelectSeq(col.values, LAMBDA c : ~IsNull(c))

\* col.isnull().sum()
null_count(col) == Len(col.values) - Len(notnull_values(col))

(***************************************************************************)
(* DfSummary.__init__                                                      *)
(***************************************************************************)
\* int(np.ceil(n / (1.0 * d)))
Ceil(n, d) == (n + d - 1) \div d

\* lines 29-32: a Series is cast to a dataframe
InitDf(input) == IF input.kind = "Series" THEN to_frame(input) ELSE input.frame

\* lines 35-38: rows of the subplot grid
InitNrows(frame) ==
    LET n == Ceil(Len(select_dtypes(frame).columns), ncols)
    IN  IF n <= 1 THEN n + 1 ELSE n

(***************************************************************************)
(* The subplot grid of return_histograms and return_boxplots.              *)
(***************************************************************************)
\* plt.subplots(nrows, ncols) with the default squeeze=True: a 2-D array of
\* axes only when both dimensions exceed 1
AxesDims(nr, nc) ==
    IF nr > 1 /\ nc > 1 THEN 2 ELSE IF nr = 1 /\ nc = 1 THEN 0 ELSE 1

\* the non-null values of a column as integers
Numbers(col) ==
    LET cells == notnull_values(col) IN [k \in 1..Len(cells) |-> cells[k][1]]

\* Series.mean() of the integers xs: a reduced fraction, NaN when empty
mean(xs) ==
    IF xs = <<>> THEN NaN ELSE Frac(SumValues(xs), Len(xs))

\* the k-th smallest (k = 1 .. Len(xs)) of the integers xs
KthSmallest(xs, k) ==
    CHOOSE v \in Range(xs) :
        /\ CountLt(xs, v) < k
        /\ k <= CountLe(xs, v)

\* Series.quantile(t/4), linear interpolation between the order statistics
quantile(xs, t) ==
    IF xs = <<>> THEN NaN
    ELSE LET pos == (Len(xs) - 1) * t
             lo  == pos \div 4
             rem == pos % 4
             xlo == KthSmallest(xs, lo + 1)
             xhi == IF rem = 0 THEN xlo ELSE KthSmallest(xs, lo + 2)
         IN  Frac(4 * xlo + rem * (xhi - xlo), 4)

\* Series.median()
median(xs) == quantile(xs, Q50)

\* lines 96-120: one cell of the histogram grid
HistogramCell(frame, i, j, counter) ==
    IF counter < Len(frame.columns)
    THEN LET col == frame.columns[counter + 1]
             col_no_null == Numbers(col)
         IN  [i |-> i, j |-> j, plot |-> "hist", column |-> col.name,
              points |-> Len(col_no_null),
              vlines |-> <<mean(col_no_null), median(col_no_null),
                           quantile(col_no_null, Q25), quantile(col_no_null, Q75)>>,
              nan_dropped |-> null_count(col), swarm |-> <<>>]
    ELSE [i |-> i, j |-> j, plot |-> "off", column |-> "", points |-> 0,
          vlines |-> <<>>, nan_dropped |-> 0, swarm |-> <<>>]

\* the overlay with the cap itself left out of the first branch
SwarmPoints_Strict(swarmplot, n) ==
    IF swarmplot /\ n < SwarmCap THEN <<n>>
    ELSE IF swarmplot /\ n > SwarmCap THEN <<SwarmCap>>
    ELSE <<>>

\* lines 240-245: the points of the swarmplot overlay, <<>> when there is none.
\* sample(SwarmCap) draws a random subset; its size is what the code fixes.
SwarmPoints(swarmplot, n) ==
    IF swarmplot /\ n <= SwarmCap THEN <<n>>
    ELSE IF swarmplot /\ n > SwarmCap THEN <<SwarmCap>>
    ELSE <<>>

\* lines 242-244: what a cell prints
SwarmPrinted(swarmplot, name, n) ==
    IF ~(swarmplot /\ n <= SwarmCap) /\ swarmplot /\ n > SwarmCap
    THEN <<[text |-> "There are {n} non-null data points in the '{col}' field.  2000 random points (only) will be plotted in the swarmplot.",
            col |-> name, n |-> n]>>
    ELSE <<>>

\* lines 233-256: one cell of the boxplot grid
BoxplotCell(frame, swarmplot, i, j, counter) ==
    IF counter < Len(frame.columns)
    THEN LET col == frame.columns[counter + 1]
             n   == Len(notnull_values(col))
         IN  [i |-> i, j |-> j, plot |-> "box", column |-> col.name,
              points |-> n, vlines |-> <<>>,
              nan_dropped |-> null_count(col), swarm |-> SwarmPoints(swarmplot, n)]
    ELSE [i |-> i, j |-> j, plot |-> "off", column |-> "", points |-> 0,
          vlines |-> <<>>, nan_dropped |-> 0, swarm |-> <<>>]

BoxplotPrinted(frame, swarmplot, counter) ==
    IF counter < Len(frame.columns)
    THEN LET col == frame.columns[counter + 1]
         IN  SwarmPrinted(swarmplot, col.name, Len(notnull_values(col)))
    ELSE <<>>

\* the double loop "for i in range(nrows): for j in range(ncols)" with its
\* counter, from cell (i, j) on: the cells visited and the lines printed.
\* plot is "hist" (return_histograms) or "box" (return_boxplots).
RECURSIVE WalkGrid(_, _, _, _, _, _, _, _)
WalkGrid(frame, plot, swarmplot, nr, nc, i, j, counter) ==
    IF i >= nr THEN [cells |-> <<>>, printed |-> <<>>]
    ELSE IF j >= nc THEN WalkGrid(frame, plot, swarmplot, nr, nc, i + 1, 0, counter)
    ELSE LET rest == WalkGrid(frame, plot, swarmplot, nr, nc, i, j + 1, counter + 1)
         IN  IF plot = "hist"
             THEN [cells |-> <<HistogramCell(frame, i, j, counter)>> \o rest.cells,
                   printed |-> rest.printed]
             ELSE [cells |-> <<BoxplotCell(frame, swarmplot, i, j, counter)>> \o rest.cells,
                   printed |-> BoxplotPrinted(frame, swarmplot, counter) \o rest.printed]

NoCall == [op |-> "none", method |-> <<>>, drop |-> <<>>, swarmplot |-> FALSE]

NoRet == [outcome |-> "None", exc |-> "", printed |-> <<>>, fig |-> <<>>]

Raise(exc, printed) == [outcome |-> "raise", exc |-> exc, printed |-> printed, fig |-> <<>>]

\* "ax = axes[i][j]" on an axes array that is not 2-D: axes[i] is an Axes
\* object (or axes itself is one), which cannot be subscripted
GridRaises(nr, nc) == AxesDims(nr, nc) # 2 /\ nr * nc > 0

\* DfSummary.return_histograms
return_histograms(frame, nr) ==
    IF GridRaises(nr, ncols) THEN Raise("TypeError", <<>>)
    ELSE LET num  == select_dtypes(frame)
             walk == WalkGrid(num, "hist", FALSE, nr, ncols, 0, 0, 0)
         IN  [outcome |-> "fig", exc |-> "", printed |-> walk.printed,
              fig |-> <<[kind |-> "Histograms", cells |-> walk.cells]>>]

\* DfSummary.return_boxplots
return_boxplots(frame, nr, swarmplot) ==
    IF GridRaises(nr, ncols) THEN Raise("TypeError", <<>>)
    ELSE LET num  == select_dtypes(frame)
             walk == WalkGrid(num, "box", swarmplot, nr, ncols, 0, 0, 0)
         IN  [outcome |-> "fig", exc |-> "", printed |-> walk.printed,
              fig |-> <<[kind |-> IF swarmplot THEN "Swarmplots" ELSE "Boxplots",
                         cells |-> walk.cells]>>]

(***************************************************************************)
(* Strings the code transforms: sequences of one-character strings.        *)
(***************************************************************************)
UpperChars == <<"A", "B", "C", "D", "E", "F", "G", "H", "I", "J", "K", "L", "M",
                "N", "O", "P", "Q", "R", "S", "T", "U", "V", "W", "X", "Y", "Z">>

LowerChars == <<"a", "b", "c", "d", "e", "f", "g", "h", "i", "j", "k", "l", "m",
                "n", "o", "p", "q", "r", "s", "t", "u", "v", "w", "x", "y", "z">>

LowerChar(c) ==
    IF \E k \in DOMAIN UpperChars : UpperChars[k] = c
    THEN LowerChars[CHOOSE k \in DOMAIN UpperChars : UpperChars[k] = c]
    ELSE c

UpperChar(c) ==
    IF \E k \in DOMAIN LowerChars : LowerChars[k] = c
    THEN UpperChars[CHOOSE k \in DOMAIN LowerChars : LowerChars[k] = c]
    ELSE c

\* str.lower()
lower(str) == [k \in DOMAIN str |-> LowerChar(str[k])]

\* str.capitalize()
capitalize(str) ==
    [k \in DOMAIN str |-> IF k = 1 THEN UpperChar(str[k]) ELSE LowerChar(str[k])]

pearson == <<"p", "e", "a", "r", "s", "o", "n">>

spearman == <<"s", "p", "e", "a", "r", "m", "a", "n">>

kendall == <<"k", "e", "n", "d", "a", "l", "l">>

\* the method strings a caller passes: the three names, a spelling of one in
\* another letter case, and a string that is no method
Methods ==
    {pearson, spearman, kendall,
     <<"P", "e", "a", "r", "s", "o", "n">>,
     <<"i", "n", "v", "a", "l", "i", "d">>}

\* the drop_criteria a caller passes: None, a string or a list of column names
NoneCriteria == [type |-> "NoneType", val |-> <<>>]

StrCriteria(str) == [type |-> "str", val |-> <<str>>]

ListCriteria(names) == [type |-> "list", val |-> names]

DropCriteria ==
    {NoneCriteria, StrCriteria("any_rows"), StrCriteria("any_cols"), StrCriteria("any"),
     ListCriteria(<<"A">>), ListCriteria(<<"A", "Z">>)}

\* ", ".join(names)
RECURSIVE Join(_)
Join(names) ==
    IF names = <<>> THEN ""
    ELSE IF Len(names) = 1 THEN names[1]
    ELSE names[1] \o ", " \o Join(Tail(names))

(***************************************************************************)
(* DataFrame.dropna and DataFrame.corr, as return_heatmap_data calls them. *)
(***************************************************************************)
\* the rows of frame at the positions pos
TakeRows(frame, pos) ==
    [index |-> Pick(frame.index, pos),
     columns |-> [k \in 1..Len(frame.columns) |->
                    [frame.columns[k] EXCEPT !.values = Pick(@, pos)]]]

\* the positions of the rows without a null in any of the named columns
CompleteRows(frame, names) ==
    SelectSeq([i \in 1..Len(frame.index) |-> i],
              LAMBDA i : \A k \in 1..Len(frame.columns) :
                            frame.columns[k].name \in Range(names)
                                => ~IsNull(frame.columns[k].values[i]))

\* df.dropna(axis=0, how='any')
dropna_rows(frame) == TakeRows(frame, CompleteRows(frame, columns(frame)))

\* df.dropna(axis=1, how='any')
dropna_cols(frame) ==
    [index |-> frame.index,
     columns |-> SelectSeq(frame.columns, LAMBDA col : null_count(col) = 0)]

\* df.dropna(axis=0, subset=names) raises KeyError when a name is no column
SubsetKeyError(frame, names) == \E n \in Range(names) : n \notin Range(columns(frame))

\* df.dropna(axis=0, subset=names), every name a column
dropna_subset(frame, names) == TakeRows(frame, CompleteRows(frame, names))

\* a correlation coefficient sgn * sqrt(num / den) as <<sgn, num, den>> in
\* lowest terms; NaN is <<>>
Coef(sgn, num, den) ==
    IF sgn = 0 THEN <<0, 0, 1>>
    ELSE LET g == Gcd(num, den) IN <<sgn, num \div g, den \div g>>

One == <<1, 1, 1>>

\* the values of two columns on the rows where both are non-null
PairRows(cx, cy) ==
    LET pos == SelectSeq([i \in 1..Len(cx.values) |-> i],
                         LAMBDA i : ~IsNull(cx.values[i]) /\ ~IsNull(cy.values[i]))
    IN  [x |-> [k \in 1..Len(pos) |-> cx.values[pos[k]][1]],
         y |-> [k \in 1..Len(pos) |-> cy.values[pos[k]][1]]]

\* the product-moment correlation of two integer sequences of equal length:
\* NaN without observations or when either has no variance
Moment(xs, ys) ==
    LET n   == Len(xs)
        sx  == SumFun(xs)
        sy  == SumFun(ys)
        sxy == n * SumFun([k \in 1..n |-> xs[k] * ys[k]]) - sx * sy
        sxx == n * SumFun([k \in 1..n |-> xs[k] * xs[k]]) - sx * sx
        syy == n * SumFun([k \in 1..n |-> ys[k] * ys[k]]) - sy * sy
    IN  IF n < 1 \/ sxx * syy = 0 THEN NaN
        ELSE Coef(Sign(sxy), sxy * sxy, sxx * syy)

\* twice the average rank of each element of xs
Rank2(xs) ==
    [k \in 1..Len(xs) |->
        2 * CountLt(xs, xs[k]) + CountEq(xs, xs[k]) + 1]

\* Kendall's tau-b of two integer sequences of equal length
Tau(xs, ys) ==
    LET n     == Len(xs)
        pairs == {p \in (1..n) \X (1..n) : p[1] < p[2]}
        s     == SumFun([p \in pairs |-> Sign(xs[p[1]] - xs[p[2]]) * Sign(ys[p[1]] - ys[p[2]])])
        dx    == Cardinality({p \in pairs : xs[p[1]] # xs[p[2]]})
        dy    == Cardinality({p \in pairs : ys[p[1]] # ys[p[2]]})
    IN  IF dx = 0 \/ dy = 0 THEN NaN ELSE Coef(Sign(s), s * s, dx * dy)

\* one entry of df.corr(method), method one of the three names
CorrEntry(frame, method, i, j) ==
    LET rows == PairRows(frame.columns[i], frame.columns[j])
    IN  IF method = pearson THEN Moment(rows.x, rows.y)
        ELSE IF method = spearman THEN Moment(Rank2(rows.x), Rank2(rows.y))
        ELSE IF Len(rows.x) < 1 THEN NaN
        ELSE IF i = j THEN One
        ELSE Tau(rows.x, rows.y)

\* df.corr(method) raises ValueError for any other method string
CorrRaises(method) == method \notin {pearson, spearman, kendall}

\* df.corr(method): a square matrix labelled by the columns of df
corr(frame, method) ==
    [columns |-> columns(frame),
     values |-> [i \in 1..Len(frame.columns) |->
                   [j \in 1..Len(frame.columns) |-> CorrEntry(frame, method, i, j)]]]

\* corrs.notnull().sum().sum()
NotNullEntries(m) ==
    Cardinality({p \in (1..Len(m.columns)) \X (1..Len(m.columns)) :
                    ~IsNull(m.values[p[1]][p[2]])})

(***************************************************************************)
(* return_heatmap_data (dfsummary_helpers.py)                              *)
(***************************************************************************)
KeyErrorText == "Specified column does not exist in data.  No Null values were dropped."

IncorrectText == "Incorrect drop criteria specified.  No Null values were dropped."

Message(text) == [text |-> text, col |-> "", n |-> 0]

\* lines 59-83: the data the correlations are computed over, the number of
\* rows or columns dropped, the text for the title, and what is printed
DropStep(frame, drop) ==
    IF drop = StrCriteria("any_rows")
    THEN LET corr_data == dropna_rows(frame)
         IN  [corr_data |-> corr_data,
              drop_count |-> shape(frame)[1] - shape(corr_data)[1],
              title_text |-> "rows", printed |-> <<>>]
    ELSE IF drop = StrCriteria("any_cols")
    THEN LET corr_data == dropna_cols(frame)
         IN  [corr_data |-> corr_data,
              drop_count |-> shape(frame)[2] - shape(corr_data)[2],
              title_text |-> "columns", printed |-> <<>>]
    ELSE IF drop.type = "list"
    THEN IF SubsetKeyError(frame, drop.val)
         THEN [corr_data |-> frame, drop_count |-> 0,
               title_text |-> "rows or columns", printed |-> <<Message(KeyErrorText)>>]
         ELSE LET corr_data == dropna_subset(frame, drop.val)
              IN  [corr_data |-> corr_data,
                   drop_count |-> shape(frame)[1] - shape(corr_data)[1],
                   title_text |-> "rows (subsetted on " \o Join(drop.val) \o ") Null values",
                   printed |-> <<>>]
    ELSE [corr_data |-> frame, drop_count |-> 0, title_text |-> "rows or columns",
          printed |-> IF drop # NoneCriteria THEN <<Message(IncorrectText)>> ELSE <<>>]

\* the whole function: the dictionary it returns in data, or the exception
\* that line 87 raises
return_heatmap_data(frame, method, drop) ==
    LET step == DropStep(frame, drop)
    IN  IF CorrRaises(method)
        THEN [exc |-> "ValueError", printed |-> step.printed, data |-> <<>>]
        ELSE [exc |-> "", printed |-> step.printed,
              data |-> <<[corrs |-> corr(step.corr_data, method),
                          drop_count |-> step.drop_count,
                          title_text |-> step.title_text]>>]

(***************************************************************************)
(* DfSummary.return_heatmap                                                *)
(***************************************************************************)
InvalidText == "Invalid data or correlation method provided for heatmap to be generated."

NoDataText == "There is no data left for calcualting pair-wise correlations."

\* the guard without its test of the method
HeatmapRejects_ColumnsOnly(frame, method) == shape(frame)[2] < 2

\* line 158: the guard
HeatmapRejects(frame, method) ==
    shape(frame)[2] < 2 \/ lower(method) \notin {pearson, spearman, kendall}

\* lines 177-179: the cells left unmasked, those strictly below the diagonal
Unmasked(m) ==
    {p \in (1..Len(m.columns)) \X (1..Len(m.columns)) : p[2] < p[1]}

\* line 181, sns.heatmap(corrs, mask=mask): the cells drawn are the unmasked
\* ones that hold a value, a NaN cell being masked by the plotting library
Drawn(m) ==
    {p \in Unmasked(m) : ~IsNull(m.values[p[1]][p[2]])}

\* lines 170-198: the figure
HeatmapFigure(data, method) ==
    [kind |-> "Heatmap", corrs |-> data.corrs, shown |-> Drawn(data.corrs),
     title |-> [method |-> capitalize(method), drop_count |-> data.drop_count,
                title_text |-> data.title_text]]

\* the attribute cleared by a rejected call
HeatmapStore_ClearOnReject(cache, rejected, got) ==
    IF rejected THEN <<>> ELSE IF got.exc # "" THEN cache ELSE got.data

\* lines 158-164: the heatmap_data attribute after the call, cache being the
\* attribute before it: assigned only when return_heatmap_data has returned
HeatmapStore(cache, rejected, got) ==
    IF rejected \/ got.exc # "" THEN cache ELSE got.data

\* the whole method: what it returns and prints, and the heatmap_data
\* attribute after it
return_heatmap(frame, cache, method, drop) ==
    LET num      == select_dtypes(frame)
        rejected == HeatmapRejects(num, method)
        got      == IF rejected THEN [exc |-> "", printed |-> <<>>, data |-> <<>>]
                    ELSE return_heatmap_data(num, method, drop)
    IN  [heatmap_data |-> HeatmapStore(cache, rejected, got),
         ret |->
            IF rejected
            THEN [outcome |-> "None", exc |-> "",
                  printed |-> <<Message(InvalidText)>>, fig |-> <<>>]
            ELSE IF got.exc # ""
            THEN Raise(got.exc, got.printed)
            ELSE IF NotNullEntries(got.data[1].corrs) = 0
            THEN [outcome |-> "None", exc |-> "",
                  printed |-> got.printed \o <<Message(NoDataText)>>, fig |-> <<>>]
            ELSE [outcome |-> "fig", exc |-> "", printed |-> got.printed,
                  fig |-> <<HeatmapFigure(got.data[1], method)>>]]

(***************************************************************************)
(* return_df_summary (dfsummary_helpers.py) and DfSummary.return_summary   *)
(***************************************************************************)
\* DataFrame.T of a table [index, columns, values], values[row][column]
Transpose(t) ==
    [index |-> t.columns, columns |-> t.index,
     values |-> [r \in 1..Len(t.columns) |-> [c \in 1..Len(t.index) |-> t.values[c][r]]]]

\* n / d rounded to an integer, halves to the even neighbour
RoundDiv(n, d) ==
    LET q == n \div d
        r == n % d
    IN  IF 2 * r < d THEN q
        ELSE IF 2 * r > d THEN q + 1
        ELSE IF q % 2 = 0 THEN q ELSE q + 1

\* line 17: round(null_count / len(df) * 100, 2), NaN for 0 / 0
null_percent(nulls, len) ==
    IF len = 0 THEN NaN ELSE Frac(RoundDiv(nulls * 10000, len), 100)

\* Series.nunique(): the distinct non-null values
nunique(col) == Cardinality(Range(notnull_values(col)))

\* Series.min() and Series.max()
min(xs) == IF xs = <<>> THEN NaN ELSE Frac(KthSmallest(xs, 1), 1)

max(xs) == IF xs = <<>> THEN NaN ELSE Frac(KthSmallest(xs, Len(xs)), 1)

\* Series.std(): the square root of the sample variance, kept as the
\* variance; NaN below two observations
std(xs) ==
    LET n  == Len(xs)
        sx == SumValues(xs)
    IN  IF n < 2 THEN NaN
        ELSE [sqrt_of |-> Frac(n * SumSquares(xs) - sx * sx, n * (n - 1))]

\* Series.skew() and Series.kurtosis(): NaN below 3 and 4 observations, 0
\* without variance, otherwise the engine's value for these observations
HigherMoment(name, least, xs) ==
    IF Len(xs) < least THEN NaN
    ELSE IF Cardinality(Range(xs)) = 1 THEN <<0, 1>>
    ELSE [moment |-> name, n |-> Len(xs)]

StatNames ==
    <<"dtype", "null_count", "null_percent", "unique_vals", "mean", "min", "max",
      "std", "25%", "median", "75%", "skewness", "kurtosis">>

\* the string written as the integer code v
Str(v) == [string |-> "s" \o ToString(v)]

\* the decimal digits of the natural number v, as ToString writes them
RECURSIVE Digits(_)
Digits(v) == IF v < 10 THEN <<v>> ELSE Append(Digits(v \div 10), v % 10)

\* the order of Python strings on digit strings: character by character, a
\* proper prefix before its extensions
LexLess(a, b) ==
    \E k \in 1..(Min2(Len(a), Len(b)) + 1) :
        /\ \A i \in 1..(k - 1) : a[i] = b[i]
        /\ k <= Len(b)
        /\ k > Len(a) \/ a[k] < b[k]

\* "s<u>" <= "s<v>" as strings
StrLe(u, v) == u = v \/ LexLess(Digits(u), Digits(v))

\* df.min() and df.max() on a column of strings, where the engine does not
\* raise: the smallest and the largest string when no cell is null, and the
\* column left out (NaN) when a null cannot be compared with the strings
StringExtreme(name, col) ==
    LET xs == Numbers(col)
    IN  IF xs = <<>> \/ null_count(col) > 0 THEN NaN
        ELSE IF name = "min"
        THEN Str(CHOOSE v \in Range(xs) : \A w \in Range(xs) : StrLe(v, w))
        ELSE Str(CHOOSE v \in Range(xs) : \A w \in Range(xs) : StrLe(w, v))

\* lines 15-27: one statistic of one column; for a column that is not
\* numeric the statistics from the mean on are NaN, min and max excepted
Statistic(name, col, len) ==
    LET xs == Numbers(col)
    IN  CASE name = "dtype"        -> col.dtype
          [] name = "null_count"   -> null_count(col)
          [] name = "null_percent" -> null_percent(null_count(col), len)
          [] name = "unique_vals"  -> nunique(col)
          [] ~IsNumeric(col) /\ name \in {"min", "max"} -> StringExtreme(name, col)
          [] ~IsNumeric(col)       -> NaN
          [] name = "mean"         -> mean(xs)
          [] name = "min"          -> min(xs)
          [] name = "max"          -> max(xs)
          [] name = "std"          -> std(xs)
          [] name = "25%"          -> quantile(xs, Q25)
          [] name = "median"       -> quantile(xs, Q50)
          [] name = "75%"          -> quantile(xs, Q75)
          [] name = "skewness"     -> HigherMoment("skew", 3, xs)
          [] OTHER                 -> HigherMoment("kurtosis", 4, xs)

\* lines 14-27: df_sum, one row per column of df and one column per statistic
df_sum(frame) ==
    [index |-> columns(frame), columns |-> StatNames,
     values |-> [r \in 1..Len(frame.columns) |->
                   [c \in 1..Len(StatNames) |->
                      Statistic(StatNames[c], frame.columns[r], Len(frame.index))]]]

\* the table returned as it was built
return_df_summary_NoTranspose(frame) == df_sum(frame)

\* line 30
return_df_summary(frame) == Transpose(df_sum(frame))

\* df.isnull().sum().sum()
TotalNulls(frame) == SumFun([k \in 1..Len(frame.columns) |-> null_count(frame.columns[k])])

\* df.head() and df.tail(): the labels of the first and the last 5 rows
head(frame) == SubSeq(frame.index, 1, Min2(5, Len(frame.index)))

tail(frame) ==
    SubSeq(frame.index, Len(frame.index) - Min2(5, Len(frame.index)) + 1, Len(frame.index))

\* lines 55-58 of return_summary where display is not a defined name: the
\* three lines printed before display(...) raises NameError
PrintedBeforeDisplay(frame) ==
    <<[text |-> "Dataframe shape: {shape}", shape |-> shape(frame)],
      [text |-> "Total number of null values in data: {n}", n |-> TotalNulls(frame)],
      [text |-> "First 5 rows of data:"]>>

\* lines 55-61 of return_summary: what is printed and displayed before the
\* statistics are computed
SummaryPrinted(frame) ==
    <<[text |-> "Dataframe shape: {shape}", shape |-> shape(frame)],
      [text |-> "Total number of null values in data: {n}", n |-> TotalNulls(frame)],
      [text |-> "First 5 rows of data:", rows |-> head(frame)],
      [text |-> "Last 5 rows of data:", rows |-> tail(frame)],
      [text |-> "DATA SUMMARY"]>>

\* df.mean() and the statistics after it on a frame with a column that is not
\* numeric: the engine either leaves such columns out (numeric_only unset, as
\* when the package was written) or raises TypeError, depending on its version
StatisticsRaise(frame, lenient) ==
    ~lenient /\ \E k \in 1..Len(frame.columns) : ~IsNumeric(frame.columns[k])

Init ==
    /\ \E input \in Inputs :
         /\ df = InitDf(input)
         /\ nrows = InitNrows(InitDf(input))
    /\ heatmap_data = <<>>
    /\ df_summary = <<>>
    /\ call = NoCall
    /\ ret = NoRet

ReturnHistograms ==
    /\ call' = [NoCall EXCEPT !.op = "return_histograms"]
    /\ ret' = return_histograms(df, nrows)
    /\ UNCHANGED <<df, nrows, heatmap_data, df_summary>>

ReturnBoxplots ==
    \E swarmplot \in BOOLEAN :
        /\ call' = [NoCall EXCEPT !.op = "return_boxplots", !.swarmplot = swarmplot]
        /\ ret' = return_boxplots(df, nrows, swarmplot)
        /\ UNCHANGED <<df, nrows, heatmap_data, df_summary>>

ReturnHeatmap ==
    \E method \in Methods, drop \in DropCriteria :
        LET r == return_heatmap(df, heatmap_data, method, drop)
        IN  /\ call' = [NoCall EXCEPT !.op = "return_heatmap", !.method = method,
                                      !.drop = <<drop>>]
            /\ ret' = r.ret
            /\ heatmap_data' = r.heatmap_data
            /\ UNCHANGED <<df, nrows, df_summary>>

\* DfSummary.return_summary.  display is not imported by the module: it is
\* defined where the interactive shell provides it (notebook), and the call
\* raises NameError at line 58 elsewhere.  The table is displayed after it
\* is assigned.
ReturnSummary ==
    \E lenient \in BOOLEAN, notebook \in BOOLEAN :
        /\ call' = [NoCall EXCEPT !.op = "return_summary"]
        /\ IF ~notebook
           THEN /\ ret' = Raise("NameError", PrintedBeforeDisplay(df))
                /\ UNCHANGED df_summary
           ELSE IF StatisticsRaise(df, lenient)
           THEN /\ ret' = Raise("TypeError", SummaryPrinted(df))
                /\ UNCHANGED df_summary
           ELSE /\ ret' = [NoRet EXCEPT !.printed =
                              SummaryPrinted(df) \o <<[text |-> "df_summary"]>>]
                /\ df_summary' = <<return_df_summary(df)>>
        /\ UNCHANGED <<df, nrows, heatmap_data>>

Next ==
    \/ ReturnSummary
    \/ ReturnHistograms
    \/ ReturnBoxplots
    \/ ReturnHeatmap

Spec == Init /\ [][Next]_vars

(***************************************************************************)
(* The claims.                                                             *)
(***************************************************************************)
MethodNames == {pearson, spearman, kendall}

\* the numeric columns of the dataset the object owns
NumericColumns == SelectSeq(df.columns, IsNumeric)

HeatmapCalled == call.op = "return_heatmap"

\* the method of the last call is one of the three names in some letter case
Recognised == lower(call.method) \in MethodNames

\* the cells of the figure the last call returned
Cells == ret.fig[1].cells

\* C1: for every number n >= 0 of numeric columns, the grid computed by the
\* constructor has at least 2 rows and at least n cells.
C1_GridFloor ==
    nrows >= 2 /\ nrows * ncols >= Len(NumericColumns)

\* C2, as claimed: whatever return_heatmap leaves in heatmap_data is the
\* result computed for that call; a call that computes no result leaves no
\* earlier result behind.
C2_CacheIsLastCall ==
    HeatmapCalled /\ heatmap_data # <<>> =>
        heatmap_data = return_heatmap_data(select_dtypes(df), call.method, call.drop[1]).data

\* C2, amended: a return_heatmap call with at least 2 numeric columns and a
\* method spelled exactly as one of the three names stores the result
\* computed for it; every other return_heatmap call (rejected by the guard,
\* or raising in the correlation) leaves heatmap_data as it was.
C2_CacheIsLastComputed ==
    [][call'.op = "return_heatmap" =>
         IF Len(NumericColumns) >= 2 /\ call'.method \in MethodNames
         THEN heatmap_data' =
                  return_heatmap_data(select_dtypes(df), call'.method, call'.drop[1]).data
         ELSE heatmap_data' = heatmap_data]_vars

\* C2 witness: a rejected call has left an earlier result in the cache
C2_StaleAfterReject ==
    /\ HeatmapCalled
    /\ ret.printed = <<Message(InvalidText)>>
    /\ heatmap_data # <<>>

\* C3: a method that differs from one of the three names only in letter case
\* passes the guard, and the call stores and returns what the lowercase
\* spelling does, without raising.
C3_CaseInsensitive ==
    HeatmapCalled /\ Recognised /\ Len(NumericColumns) >= 2 =>
        /\ ret.outcome # "raise"
        /\ heatmap_data =
               return_heatmap_data(select_dtypes(df), lower(call.method), call.drop[1]).data

\* C4: a return_heatmap call on fewer than 2 numeric columns, or with a method
\* that is none of the three names in any letter case, prints the message,
\* returns nothing and raises nothing.
C4_RejectedIsSoft ==
    HeatmapCalled /\ (Len(NumericColumns) < 2 \/ ~Recognised) =>
        /\ ret.outcome = "None"
        /\ ret.exc = ""
        /\ ret.fig = <<>>
        /\ ret.printed = <<Message(InvalidText)>>

\* C4 witness: a call with an unknown method on two or more numeric columns
C4_RejectedMethod ==
    /\ HeatmapCalled
    /\ ~Recognised
    /\ Len(NumericColumns) >= 2
    /\ ret.printed = <<Message(InvalidText)>>

\* the last call reached return_heatmap_data with a list that names a column
\* the numeric subset does not have
MissingColumnCall ==
    /\ HeatmapCalled /\ Recognised /\ Len(NumericColumns) >= 2
    /\ call.drop[1].type = "list"
    /\ \E name \in Range(call.drop[1].val) : name \notin Range(columns(select_dtypes(df)))

\* C5: with a list drop policy naming an absent column nothing is raised: the
\* warning is printed, the correlation is computed over the whole subset,
\* drop_count is 0 and the description is 'rows or columns'.
C5_MissingColumnIsSoft ==
    MissingColumnCall =>
        /\ ret.outcome # "raise"
        /\ Message(KeyErrorText) \in Range(ret.printed)
        /\ heatmap_data =
               <<[corrs |-> corr(select_dtypes(df), lower(call.method)),
                  drop_count |-> 0, title_text |-> "rows or columns"]>>

\* the positions of the rows of the numeric subset without any null
FullRows ==
    SelectSeq([i \in 1..Len(df.index) |-> i],
              LAMBDA i : \A k \in 1..Len(NumericColumns) :
                            NumericColumns[k].values[i] # NaN)

\* C6: with drop policy 'any_rows' on n rows, k of them without a null, the
\* result has drop_count = n - k and description 'rows', and its
\* correlations are those of exactly these k rows.
C6_AnyRows ==
    /\ HeatmapCalled /\ Recognised /\ Len(NumericColumns) >= 2
    /\ call.drop[1] = StrCriteria("any_rows")
    => /\ ret.outcome # "raise"
       /\ heatmap_data =
              <<[corrs |-> corr(TakeRows(select_dtypes(df), FullRows), lower(call.method)),
                 drop_count |-> Len(df.index) - Len(FullRows),
                 title_text |-> "rows"]>>

\* the warning return_boxplots prints for a column of m non-null values
SwarmWarning(name, m) ==
    [text |-> "There are {n} non-null data points in the '{col}' field.  2000 random points (only) will be plotted in the swarmplot.",
     col |-> name, n |-> m]

\* the non-null values of the k-th numeric column
NonNull(k) == Len(SelectSeq(NumericColumns[k].values, LAMBDA c : c # NaN))

\* C7: return_boxplots with swarmplot draws min(m, 2000) points over every
\* numeric column of m non-null values and warns, naming the column and m,
\* exactly when m > 2000; without swarmplot there is no overlay, no warning.
C7_SwarmCap ==
    call.op = "return_boxplots" =>
        /\ ~call.swarmplot => ret.printed = <<>>
        /\ \A k \in 1..Len(NumericColumns) :
             /\ ret.outcome = "fig"
             /\ Cells[k].column = NumericColumns[k].name
             /\ Cells[k].swarm =
                    IF call.swarmplot THEN <<Min2(NonNull(k), 2000)>> ELSE <<>>
             /\ SwarmWarning(NumericColumns[k].name, NonNull(k)) \in Range(ret.printed)
                    <=> call.swarmplot /\ NonNull(k) > 2000

\* C7 witness: a swarmplot over a column of more than 2000 non-null values
C7_Sampled ==
    /\ call.op = "return_boxplots"
    /\ call.swarmplot
    /\ \E k \in 1..Len(NumericColumns) : NonNull(k) > 2000
    /\ ret.printed # <<>>

\* C8, as claimed: the summary table has one row per column of the dataset
\* and the statistic names as its columns.
C8_RowPerColumn ==
    df_summary # <<>> =>
        /\ Len(df_summary[1].index) = Len(df.columns)
        /\ df_summary[1].columns = StatNames

\* C8, amended: the table return_df_summary returns has one row per statistic
\* name (13 rows) and one column per column of the dataset.
C8_RowPerStatistic ==
    df_summary # <<>> =>
        /\ df_summary[1].index = StatNames
        /\ Len(df_summary[1].index) = 13
        /\ df_summary[1].columns = columns(df)
        /\ \A r \in 1..13 : Len(df_summary[1].values[r]) = Len(df.columns)

\* C8 witness: the summary of a dataset of two columns
C8_SummaryOfTwo ==
    /\ call.op = "return_summary"
    /\ df_summary # <<>>
    /\ Len(df.columns) = 2

\* C9: return_histograms and return_boxplots complete and visit the
\* nrows * ncols cells in row-major order, the k-th cell rendering numeric
\* column k when there is one and a blank placeholder otherwise.
C9_GridWalk ==
    call.op \in {"return_histograms", "return_boxplots"} =>
        /\ ret.outcome = "fig"
        /\ Len(Cells) = nrows * ncols
        /\ \A c \in 0..(Len(Cells) - 1) :
             /\ Cells[c + 1].i = c \div ncols
             /\ Cells[c + 1].j = c % ncols
             /\ IF c < Len(NumericColumns)
                THEN /\ Cells[c + 1].plot # "off"
                     /\ Cells[c + 1].column = NumericColumns[c + 1].name
                ELSE Cells[c + 1].plot = "off"

\* C10: a figure returned by return_heatmap renders a correlation matrix of
\* at least 2 columns, and at least one cell of it is displayed.
C10_FigureHasPairs ==
    HeatmapCalled /\ ret.outcome = "fig" =>
        /\ Len(ret.fig[1].corrs.columns) >= 2
        /\ ret.fig[1].shown # {}

====
